---- MODULE Spec2Model ----
(***************************************************************************)
(* Model of tocker's interaction loop (src/tui/mod.rs) and of its keybinding *)
(* and authorization tables (src/tocker/mod.rs).                           *)
(*                                                                         *)
(* One step of the model is everything the program does between two       *)
(* blocking reads of a terminal event: the read, the lookup of the key,    *)
(* the handler, and (when the step ends a cycle) the execution of the      *)
(* docker command or the push of the error row done by start_loop.         *)
(*                                                                         *)
(* A row text is modelled by its split_whitespace() token sequence, and a  *)
(* built String by the sequence of the pieces pushed onto it.              *)
(***************************************************************************)
EXTENDS Integers, Sequences, FiniteSets, TLC

(***************************************************************************)
(* Bounds of the model.                                                    *)
(***************************************************************************)
\* Error rows are pushed only while the RowList holds fewer error rows than this
\* (one more for the row of a cancellation).
MaxErr == 1
\* Largest number of lines of a docker output.
MaxOut == 3
\* usize arithmetic is modulo UsizeMod (2^64 in the program).
UsizeMod == 16

UsizeMax == UsizeMod - 1

(***************************************************************************)
(* Key events (crossterm KeyEvent: code + modifiers) and other events.     *)
(***************************************************************************)
KindKeys == {"i", "c", "v"}
CommandKeys == {"l", "r", "s", "t"}
GeneralKeys == {"Ctrl+c", "Esc", "Ctrl+q", "Ctrl+h", "Ctrl+l"}
SelectKeys == {"Up", "j", "Down", "k", "Space", "Enter", "Ctrl+c"}
\* "x" stands for every key that no table binds.
Keys == KindKeys \cup CommandKeys \cup GeneralKeys \cup SelectKeys \cup {"x"}
\* An Event that is not Event::Key (resize, mouse, focus, paste).
NonKey == "Resize"
Events == Keys \cup {NonKey}
NoKey == "none"

(***************************************************************************)
(* Tocker::new: the tables.                                                *)
(***************************************************************************)
kind_keybindings == [k \in KindKeys |->
    CASE k = "i" -> "Image" [] k = "c" -> "Container" [] k = "v" -> "Volume"]

command_keybindings == [k \in CommandKeys |->
    CASE k = "l" -> "LS" [] k = "r" -> "RM" [] k = "s" -> "STOP" [] k = "t" -> "TAG"]

general_keybindings == [k \in GeneralKeys |->
    CASE k = "Ctrl+c" -> "CANCEL" [] k = "Esc" -> "CANCEL" [] k = "Ctrl+q" -> "QUIT"
      [] k = "Ctrl+h" -> "HELP" [] k = "Ctrl+l" -> "CLEAN"]

select_keybindings == [k \in SelectKeys |->
    CASE k = "Up" -> "UP" [] k = "j" -> "UP" [] k = "Down" -> "DOWN" [] k = "k" -> "DOWN"
      [] k = "Space" -> "SELECT" [] k = "Enter" -> "CONFIRM" [] k = "Ctrl+c" -> "CANCEL"]

DockerKind == {"Image", "Container", "Volume"}
DockerCommand == {"LS", "RM", "TAG", "STOP"}

mapping == [k \in DockerKind |->
    CASE k = "Image" -> {"LS", "RM", "TAG"}
      [] k = "Container" -> {"LS", "RM", "STOP"}
      [] k = "Volume" -> {"LS", "RM"}]

legenda == [k \in DockerKind |->
    CASE k = "Image" -> "Available commands for image: \n l = ls, r = rm, t = tag"
      [] k = "Container" -> "Available commands for container: \n l = ls, r = rm, s = stop"
      [] k = "Volume" -> "Available commands for volume: \n l = ls, r = rm"]

target_mapping == [c \in DockerCommand |->
    CASE c = "RM" -> "SELECT" [] c = "STOP" -> "SELECT" [] c = "LS" -> "EMPTY"
      [] c = "TAG" -> "INPUT"]

help_string == "[c/i/v] = container/image/volume; \n [ctrl+q] = quit; [ctrl+c] = cancel action; [ctrl+l] = clear content; [ctrl+b] build image from path"

INITIAL_COMMANDS == "Available commands: \n press 'i' = image, 'c' = container, 'v' = volume."
TARGET_COMMANDS == "Available commands: \n press 'space' = select, 'enter' = confirm"

(***************************************************************************)
(* Error messages (io::Error texts), as token sequences: start_loop pushes *)
(* err.to_string() as a row.                                               *)
(***************************************************************************)
ErrValidKey == <<"Press", "a", "valid", "key">>
ErrSelection == <<"Invalid", "key", "input", "for", "selection">>
ErrNotCommand == <<"Input", "should", "not", "be", "considered", "as", "commands">>
ErrNoCommands == <<"Key", "pressed", "doesn't", "have", "any", "available", "commands">>
ErrNotValid == <<"Not", "valid", "inputs">>
ErrCanceled == <<"User", "canceled", "the", "action">>
ErrWrong == <<"Press", "only", "the", "available", "keys">>
ErrorTexts == {ErrValidKey, ErrSelection, ErrNotCommand, ErrNoCommands, ErrNotValid,
               ErrCanceled, ErrWrong}

(***************************************************************************)
(* Tocker: the lookups.  "ERR" stands for the Err(..) result.              *)
(***************************************************************************)
\* Err iff the event is not a key event.
extract_key_event(e) == IF e \in Keys THEN e ELSE "ERR"

check_select(event) ==
    IF event \in DOMAIN select_keybindings THEN select_keybindings[event] ELSE "ERR"

check_keybinding(event, moment) ==
    IF event \in DOMAIN general_keybindings
    THEN general_keybindings[event]
    ELSE CASE moment = "KIND" ->
                IF event \in DOMAIN kind_keybindings THEN "OK" ELSE "WRONG"
           [] moment = "COMMAND" ->
                IF event \in DOMAIN command_keybindings THEN "OK" ELSE "WRONG"
           [] OTHER -> "ERR"

get_available_commands(key_event) ==
    IF key_event \in DOMAIN kind_keybindings
    THEN legenda[kind_keybindings[key_event]]
    ELSE "ERR"

\* check_for_target without the allowed_commands.contains(cmd) test.
check_for_target_unchecked(first, second) ==
    IF first \notin DOMAIN kind_keybindings THEN "ERR"
    ELSE IF second \notin DOMAIN command_keybindings THEN "ERR"
    ELSE target_mapping[command_keybindings[second]]

check_for_target(first, second) ==
    IF first \notin DOMAIN kind_keybindings THEN "ERR"
    ELSE IF second \notin DOMAIN command_keybindings THEN "ERR"
    ELSE IF command_keybindings[second] \in mapping[kind_keybindings[first]]
         THEN target_mapping[command_keybindings[second]]
         ELSE "ERR"

NoPrompt == [kind |-> "none", command |-> "none", target |-> <<>>]

\* The DockerPrompt built by exec_cmd; NoPrompt stands for its Err(..).
exec_cmd(first, second, target) ==
    IF first \notin DOMAIN kind_keybindings \/ second \notin DOMAIN command_keybindings
    THEN NoPrompt
    ELSE [kind |-> kind_keybindings[first],
          command |-> command_keybindings[second],
          target |-> target]

(***************************************************************************)
(* Output of the docker subprocess: the lines of its stdout.               *)
(***************************************************************************)
\* docker image ls
ImageTable == << <<"REPOSITORY", "TAG", "IMAGE", "ID", "SIZE">>,
                 <<"myimg", "latest", "abc123", "10MB">>,
                 <<"web", "v2", "def456", "20MB">>,
                 <<"db", "v1", "0a1b2c", "5MB">> >>
\* docker container rm MYID web (the names of the removed containers)
RmTable == << <<"MYID">>, <<"web">> >>

Min(a, b) == IF a < b THEN a ELSE b

Outputs == {SubSeq(ImageTable, 1, n) : n \in 0..Min(MaxOut, Len(ImageTable))}
           \cup {SubSeq(RmTable, 1, n) : n \in 0..Min(MaxOut, Len(RmTable))}

\* Command::output() fails, stdout is not UTF-8, or stdout is decoded, from a
\* docker that exited with a non-zero status or with status 0.
DockerResults == {"spawn_error", "invalid_utf8", "nonzero_exit", "output"}

\* content.contains("ID"), for the tokens of the model.
ContainsID(token) == token \in {"ID", "MYID"}

(***************************************************************************)
(* Tui: AppState and the functions on it.                                  *)
(***************************************************************************)
VARIABLES
    state,             \* AppState: content, commands, moment, cursor (scroll.cursor)
    pc,                \* "main", "new", or the read the loop is blocked in, or "done"
    first,             \* looping's local first (NoKey when not bound)
    second,            \* looping's local second
    prompt,            \* the DockerPrompt the last step handed to docker_execute_prompt
    last,              \* what the last step read and how it ended
    raw_mode,          \* terminal raw mode enabled
    alternate_screen,  \* alternate screen entered
    exit_code,         \* "none" while running, "0", "1" or "panic"
    overflow_checks    \* build profile: TRUE = debug (overflow panics), FALSE = release (wraps)

vars == <<state, pc, first, second, prompt, last, raw_mode, alternate_screen,
          exit_code, overflow_checks>>

ContentItem(text) == [text |-> text, selected |-> FALSE]

\* looping, lines 342-349: every output line becomes an unselected row.
RowsOf(lines) == [i \in 1..Len(lines) |-> ContentItem(lines[i])]

InitialState == [content |-> <<>>, commands |-> INITIAL_COMMANDS,
                 moment |-> "KIND", cursor |-> 0]

update_commands_target(s) == [s EXCEPT !.commands = TARGET_COMMANDS]

clean(s) == [s EXCEPT !.content = <<>>]

help(s) == IF s.moment = "KIND" THEN [s EXCEPT !.commands = help_string] ELSE s

\* go_to_first without update_moment(Moment::KIND).
go_to_first_keeps_moment(s) ==
    [s EXCEPT !.commands = INITIAL_COMMANDS, !.cursor = 0]

go_to_first(s) ==
    [s EXCEPT !.commands = INITIAL_COMMANDS, !.cursor = 0, !.moment = "KIND"]

\* Called only when get_available_commands(first) is Ok.
go_to_second(s, key) ==
    [s EXCEPT !.commands = get_available_commands(key), !.moment = "COMMAND"]

\* The state after next_action(message).
next_action(s, message) ==
    CASE message = "HELP" -> help(s)
      [] message = "CLEAN" -> clean(s)
      [] message = "CANCEL" -> go_to_first(s)
      [] OTHER -> s

\* The error next_action(message) returns; <<>> stands for Ok(()).
next_action_err(message) ==
    CASE message = "CANCEL" -> ErrCanceled
      [] message = "WRONG" -> ErrWrong
      [] OTHER -> <<>>

\* cursor += 1 overflows
add_overflows(s) == s.cursor + 1 > UsizeMax

\* add_cursor wrapping to the header (index 0) instead of index 1.
add_cursor_wraps_to_header(s) ==
    LET c == (s.cursor + 1) % UsizeMod
    IN  [s EXCEPT !.cursor = IF c >= Len(s.content) THEN 0 ELSE c]

add_cursor(s) ==
    LET c == (s.cursor + 1) % UsizeMod
    IN  [s EXCEPT !.cursor = IF c >= Len(s.content) THEN 1 ELSE c]

\* cursor -= 1 or content.len() - 1 overflows
sub_overflows(s) ==
    \/ s.cursor = 0
    \/ s.cursor = 1 /\ Len(s.content) = 0

sub_cursor(s) ==
    LET c == (s.cursor + UsizeMod - 1) % UsizeMod
    IN  [s EXCEPT !.cursor = IF c <= 0
                             THEN (Len(s.content) + UsizeMod - 1) % UsizeMod
                             ELSE c]

\* The Select::SELECT arm setting the flag instead of flipping it.
toggle_sets_selected(s) ==
    IF s.cursor < Len(s.content)
    THEN [s EXCEPT !.content[s.cursor + 1].selected = TRUE]
    ELSE s

\* Select::SELECT arm: content.get_mut(cursor) (0-based index)
toggle(s) ==
    IF s.cursor < Len(s.content)
    THEN [s EXCEPT !.content[s.cursor + 1].selected = ~@]
    ELSE s

(***************************************************************************)
(* Tui::extract_target_string.  Token and row indexes are 0-based in the   *)
(* code, sequences are 1-based here.                                       *)
(***************************************************************************)
Max(S) == CHOOSE m \in S : \A n \in S : n <= m

\* The indexes of the header tokens that contain "ID".
IdTokens(content) ==
    IF content = <<>> THEN {}
    ELSE {i \in 0..(Len(content[1].text) - 1) : ContainsID(content[1].text[i + 1])}

\* index - 1 overflows
extract_overflows(content) == 0 \in IdTokens(content)

id_column_index(content) ==
    IF IdTokens(content) = {} THEN 0
    ELSE (Max(IdTokens(content)) + UsizeMod - 1) % UsizeMod

\* What one selected row pushes onto the string.
RowPushes(tokens, col) ==
    IF col < Len(tokens) THEN <<" ", tokens[col + 1]>> ELSE <<>>

RECURSIVE Pushed(_, _, _)
\* The pieces pushed by rows i..len (1-based), i >= 2.
Pushed(content, i, col) ==
    IF i > Len(content) THEN <<>>
    ELSE (IF content[i].selected THEN RowPushes(content[i].text, col) ELSE <<>>)
         \o Pushed(content, i + 1, col)

RECURSIVE TrimStart(_)
TrimStart(str) ==
    IF str # <<>> /\ Head(str) = " " THEN TrimStart(Tail(str)) ELSE str

RECURSIVE TrimEnd(_)
TrimEnd(str) ==
    IF str # <<>> /\ str[Len(str)] = " " THEN TrimEnd(SubSeq(str, 1, Len(str) - 1)) ELSE str

trim(str) == TrimEnd(TrimStart(str))

extract_target_string(content) == trim(Pushed(content, 2, id_column_index(content)))

\* The number of rows that start_loop pushed since the content was last replaced.
ErrRows(content) == Cardinality({i \in 1..Len(content) : content[i].text \in ErrorTexts})

(***************************************************************************)
(* How a step ends.                                                        *)
(***************************************************************************)
\* docker: the result of the docker command the step ran, "none" if it ran none.
Last(at, act, res) == [at |-> at, act |-> act, res |-> res, docker |-> "none"]

\* The error rows the RowList may hold before msg is pushed.  After an error at
\* the command step or in the selection loop, get_first reads with Moment still
\* COMMAND, and a CANCEL is the only way back to Moment KIND: the bound never
\* disables that CANCEL, its row is allowed one more.
ErrCap(msg) ==
    IF msg = ErrCanceled /\ pc = "first" /\ state.moment = "COMMAND"
    THEN MaxErr + 1
    ELSE MaxErr

\* looping returns Err(msg): start_loop pushes the row and calls looping again.
start_loop(s, at, act, msg) ==
    /\ ErrRows(s.content) < ErrCap(msg)
    /\ state' = [s EXCEPT !.content = Append(@, ContentItem(msg))]
    /\ pc' = "first"
    /\ first' = NoKey
    /\ second' = NoKey
    /\ last' = Last(at, act, "err")
    /\ prompt' = NoPrompt
    /\ UNCHANGED <<raw_mode, alternate_screen, exit_code, overflow_checks>>

\* A panic (unwrap on Err, arithmetic overflow in a debug build): the process
\* ends, nothing restores the terminal.
Panic(s, p, at, act, docker) ==
    /\ state' = s
    /\ prompt' = p
    /\ pc' = "done"
    /\ exit_code' = "panic"
    /\ last' = [Last(at, act, "panic") EXCEPT !.docker = docker]
    /\ UNCHANGED <<first, second, raw_mode, alternate_screen, overflow_checks>>

quit_tocker(s, at) ==
    /\ raw_mode' = FALSE
    /\ alternate_screen' = FALSE
    /\ state' = s
    /\ pc' = "done"
    /\ exit_code' = "0"
    /\ last' = Last(at, "QUIT", "quit")
    /\ prompt' = NoPrompt
    /\ UNCHANGED <<first, second, overflow_checks>>

\* looping, lines 333-355: extraction, execution, new content, go_to_first.
Execute(s, f, sec, at, act) ==
    IF overflow_checks /\ extract_overflows(s.content)
    THEN Panic(s, NoPrompt, at, act, "none")
    ELSE LET p == exec_cmd(f, sec, extract_target_string(s.content))
         IN  IF p = NoPrompt
             THEN Panic(s, NoPrompt, at, act, "none")
             ELSE \E r \in DockerResults :
                     IF r \in {"spawn_error", "invalid_utf8"}
                     THEN Panic(s, p, at, act, r)
                     ELSE \E out \in Outputs :
                             /\ state' = go_to_first([s EXCEPT !.content = RowsOf(out)])
                             /\ prompt' = p
                             /\ pc' = "first"
                             /\ first' = NoKey
                             /\ second' = NoKey
                             /\ last' = [Last(at, act, "exec") EXCEPT !.docker = r]
                             /\ UNCHANGED <<raw_mode, alternate_screen, exit_code,
                                            overflow_checks>>

(***************************************************************************)
(* main enables raw mode; Tui::new enables it again, enters the alternate  *)
(* screen and then builds the Tocker, whose constructor runs the daemon    *)
(* probe ("docker info").                                                  *)
(***************************************************************************)
Probes == {"success", "failure", "spawn_error"}

Main ==
    /\ pc = "main"
    /\ raw_mode' = TRUE
    /\ pc' = "new"
    /\ last' = Last("main", "none", "next")
    /\ UNCHANGED <<state, first, second, prompt, alternate_screen, exit_code,
                   overflow_checks>>

TuiNew ==
    /\ pc = "new"
    /\ \E probe \in Probes :
          /\ raw_mode' = TRUE
          /\ alternate_screen' = TRUE
          /\ pc' = IF probe = "success" THEN "first" ELSE "done"
          /\ exit_code' = CASE probe = "success" -> "none"
                            [] probe = "failure" -> "1"
                            [] probe = "spawn_error" -> "panic"
          /\ last' = Last("new", probe, IF probe = "success" THEN "next" ELSE "exit")
    /\ UNCHANGED <<state, first, second, prompt, overflow_checks>>

(***************************************************************************)
(* get_first: one event read at the start of looping.                      *)
(***************************************************************************)
GetFirstOn(e) ==
    /\ pc = "first"
    /\    IF extract_key_event(e) = "ERR"
          THEN start_loop(state, "first", "NONKEY", ErrValidKey)
          ELSE LET msg == check_keybinding(e, state.moment)
                   s1 == next_action(state, msg)
               IN  CASE msg = "ERR" -> start_loop(state, "first", msg, ErrNotCommand)
                     [] msg = "QUIT" -> quit_tocker(state, "first")
                     [] msg \in {"CANCEL", "WRONG"} ->
                          start_loop(s1, "first", msg, next_action_err(msg))
                     [] OTHER ->
                          IF get_available_commands(e) = "ERR"
                          THEN start_loop(s1, "first", msg, ErrNoCommands)
                          ELSE /\ state' = go_to_second(s1, e)
                               /\ pc' = "second"
                               /\ first' = e
                               /\ last' = Last("first", msg, "next")
                               /\ prompt' = NoPrompt
                               /\ UNCHANGED <<second, raw_mode, alternate_screen,
                                              exit_code, overflow_checks>>

(***************************************************************************)
(* get_second, check_combination and, unless the target type is SELECT,    *)
(* the execution.                                                          *)
(***************************************************************************)
GetSecondOn(e) ==
    /\ pc = "second"
    /\    IF extract_key_event(e) = "ERR"
          THEN start_loop(state, "second", "NONKEY", ErrValidKey)
          ELSE LET msg == check_keybinding(e, state.moment)
                   s1 == next_action(state, msg)
                   target_type == check_for_target(first, e)
               IN  CASE msg = "ERR" -> start_loop(state, "second", msg, ErrNotCommand)
                     [] msg = "QUIT" -> quit_tocker(state, "second")
                     [] msg \in {"CANCEL", "WRONG"} ->
                          start_loop(s1, "second", msg, next_action_err(msg))
                     [] OTHER ->
                          CASE target_type = "ERR" ->
                                 start_loop(s1, "second", msg, ErrNotValid)
                            [] target_type = "SELECT" ->
                                 /\ state' = update_commands_target(s1)
                                 /\ pc' = "select"
                                 /\ second' = e
                                 /\ last' = Last("second", msg, "next")
                                 /\ prompt' = NoPrompt
                                 /\ UNCHANGED <<first, raw_mode, alternate_screen,
                                                exit_code, overflow_checks>>
                            [] OTHER -> Execute(s1, first, e, "second", msg)

(***************************************************************************)
(* One iteration of the TargetType::SELECT loop of looping.                *)
(***************************************************************************)
Continue(s, act) ==
    /\ state' = update_commands_target(s)
    /\ last' = Last("select", act, "next")
    /\ prompt' = NoPrompt
    /\ UNCHANGED <<pc, first, second, raw_mode, alternate_screen, exit_code,
                   overflow_checks>>

SelectLoopOn(e) ==
    /\ pc = "select"
    /\    IF extract_key_event(e) = "ERR"
          THEN start_loop(state, "select", "NONKEY", ErrValidKey)
          ELSE LET select == check_select(e)
               IN  CASE select = "ERR" ->
                          start_loop(state, "select", "UNBOUND", ErrSelection)
                     [] select = "UP" ->
                          IF overflow_checks /\ add_overflows(state)
                          THEN Panic(state, NoPrompt, "select", select, "none")
                          ELSE Continue(add_cursor(state), select)
                     [] select = "DOWN" ->
                          IF overflow_checks /\ sub_overflows(state)
                          THEN Panic(state, NoPrompt, "select", select, "none")
                          ELSE Continue(sub_cursor(state), select)
                     [] select = "SELECT" -> Continue(toggle(state), select)
                     [] select = "CANCEL" ->
                          Execute(go_to_first(state), first, second, "select", select)
                     [] select = "CONFIRM" ->
                          Execute(state, first, second, "select", select)

\* The event is whatever the terminal delivers next.
GetFirst == \E e \in Events : GetFirstOn(e)

GetSecond == \E e \in Events : GetSecondOn(e)

SelectLoop == \E e \in Events : SelectLoopOn(e)

Init ==
    /\ state = InitialState
    /\ pc = "main"
    /\ first = NoKey
    /\ second = NoKey
    /\ prompt = NoPrompt
    /\ last = Last("init", "none", "none")
    /\ raw_mode = FALSE
    /\ alternate_screen = FALSE
    /\ exit_code = "none"
    /\ overflow_checks \in BOOLEAN

Next == Main \/ TuiNew \/ GetFirst \/ GetSecond \/ SelectLoop

Spec == Init /\ [][Next]_vars

TypeOK ==
    /\ state.moment \in {"KIND", "COMMAND"}
    /\ state.cursor \in 0..UsizeMax
    /\ pc \in {"main", "new", "first", "second", "select", "done"}
    /\ first \in KindKeys \cup {NoKey}
    /\ second \in CommandKeys \cup {NoKey}
    /\ exit_code \in {"none", "0", "1", "panic"}

(***************************************************************************)
(* Properties.                                                             *)
(***************************************************************************)
N == Len(state.content)

\* C1: a (kind, command) pair outside the allowed set of the kind fails
\* check_for_target, and no step ever builds a DockerPrompt for such a pair.
C1_NoPromptForDisallowedPair ==
    /\ \A f \in KindKeys, c \in CommandKeys :
          command_keybindings[c] \notin mapping[kind_keybindings[f]]
             => check_for_target(f, c) = "ERR"
    /\ prompt # NoPrompt => prompt.command \in mapping[prompt.kind]

\* C1 witness: a bound kind key and a bound command key whose pair is not
\* allowed were pressed, and the cycle ended without a prompt.
C1_Witness ==
    /\ last = Last("second", "OK", "err")
    /\ prompt = NoPrompt

\* C2 (as claimed): a cycle that ends with an unbound key at the kind or the
\* command step, or with a pair that is not allowed, appends a status row and the
\* next key is awaited with Moment = KIND.
C2_ErrorRestartsAtKind ==
    (/\ last.res = "err"
     /\ \/ last.at \in {"first", "second"} /\ last.act = "WRONG"
        \/ last.at = "second" /\ last.act = "OK")
    => /\ pc = "first"
       /\ state.content # <<>>
       /\ state.content[N].text \in {ErrWrong, ErrNotValid}
       /\ state.moment = "KIND"

\* C3 (as claimed): CANCEL in the selection loop restarts the cycle at KIND and
\* no docker command is executed for the cancelled cycle.
C3_SelectCancelExecutesNothing ==
    (last.at = "select" /\ last.act = "CANCEL")
    => /\ prompt = NoPrompt
       /\ last.res # "exec"
       /\ pc = "first"
       /\ state.moment = "KIND"

\* C4: a global CANCEL read while Moment = COMMAND sets Moment to KIND and the
\* cursor to 0, drops the resolved kind, executes nothing, and the next key is
\* looked up in the kind table.
C4_CancelAtCommand ==
    [][(/\ pc \in {"first", "second"}
        /\ state.moment = "COMMAND"
        /\ last'.at = pc
        /\ last'.act = "CANCEL")
       => /\ pc' = "first"
          /\ state'.moment = "KIND"
          /\ state'.cursor = 0
          /\ first' = NoKey
          /\ prompt' = NoPrompt
          /\ last'.res # "exec"
          /\ \A k \in Keys \ GeneralKeys :
                (check_keybinding(k, state'.moment) = "OK") <=> (k \in KindKeys)]_vars

\* C4 witness: Ctrl+C or Esc was read by get_second, after a kind was resolved.
C4_Witness ==
    /\ last = Last("second", "CANCEL", "err")
    /\ pc = "first"

\* C5 (as claimed): after a CANCEL, at any step, the machine awaits a kind key
\* and the cancellation has appended no row.
C5_CancelIsSilent ==
    [][last'.act = "CANCEL"
       => /\ pc' = "first"
          /\ state'.moment = "KIND"
          /\ ~(/\ Len(state'.content) = N + 1
               /\ SubSeq(state'.content, 1, N) = state.content
               /\ state'.content[N + 1].text \in ErrorTexts)]_vars

\* C6 (as claimed): whenever the RowList is non-empty the cursor is in [0, len-1].
C6_CursorInRange ==
    state.content # <<>> => state.cursor \in 0..(N - 1)

\* C7: in a RowList of length N > 1, UP moves a cursor in [0, N-1] to the next
\* index and from N-1 to 1: from 0 it visits 1, 2, .., N-1, 1, 2, .. and never 0.
C7_UpCycle ==
    [][(/\ pc = "select"
        /\ last'.at = "select"
        /\ last'.act = "UP"
        /\ N > 1
        /\ state.cursor \in 0..(N - 1))
       => /\ last'.res = "next"
          /\ state'.cursor = (IF state.cursor = N - 1 THEN 1 ELSE state.cursor + 1)
          /\ state'.cursor \in 1..(N - 1)]_vars

\* C7 witness: UP presses have taken the cursor to the last row of a list of at
\* least three rows.
C7_Witness ==
    /\ pc = "select"
    /\ last.act = "UP"
    /\ N >= 3
    /\ state.cursor = N - 1

\* C8 (as claimed): in a RowList of length N > 1, DOWN moves a cursor in [0, N-1]
\* to the previous index and from 0 or 1 to N-1, and DOWN and UP undo each other
\* on [1, N-1].
C8_DownInverseOfUp ==
    [][(pc = "select" /\ N > 1)
       => /\ (/\ last'.at = "select"
              /\ last'.act = "DOWN"
              /\ state.cursor \in 0..(N - 1))
             => /\ last'.res = "next"
                /\ state'.cursor = (IF state.cursor <= 1 THEN N - 1 ELSE state.cursor - 1)
          /\ state.cursor \in 1..(N - 1)
             => /\ add_cursor(sub_cursor(state)).cursor = state.cursor
                /\ sub_cursor(add_cursor(state)).cursor = state.cursor]_vars

\* C9 (as claimed): with an empty RowList, UP, DOWN and TOGGLE change neither the
\* cursor nor the rows and do not fault, and CONFIRM executes with no target.
C9_EmptyListNoOps ==
    [][(pc = "select" /\ state.content = <<>> /\ last'.at = "select")
       => /\ last'.act \in {"UP", "DOWN", "SELECT"}
             => /\ last'.res = "next"
                /\ state'.cursor = state.cursor
                /\ state'.content = state.content
          /\ last'.act = "CONFIRM"
             => /\ prompt' # NoPrompt
                /\ prompt'.target = <<>>]_vars

\* C10 (as claimed): the header row is never toggled.
C10_HeaderNeverToggled ==
    state.content # <<>> => ~state.content[1].selected

(***************************************************************************)
(* Properties of the extraction and of the execution.                      *)
(***************************************************************************)
\* A step that reached the extraction (looping, line 333).
Extracted ==
    /\ last'.at \in {"second", "select"}
    /\ last'.act \in {"OK", "CONFIRM", "CANCEL"}
    /\ last'.res \in {"exec", "panic"}

RECURSIVE Join(_)
\* The tokens joined by single spaces.
Join(tokens) ==
    IF tokens = <<>> THEN <<>>
    ELSE IF Len(tokens) = 1 THEN tokens
    ELSE <<Head(tokens), " ">> \o Join(Tail(tokens))

RECURSIVE ColumnOf(_, _, _)
\* The tokens at 0-based index col of the toggled rows i..len, in row order.
ColumnOf(content, i, col) ==
    IF i > Len(content) THEN <<>>
    ELSE (IF content[i].selected /\ col >= 0 /\ col < Len(content[i].text)
          THEN <<content[i].text[col + 1]>>
          ELSE <<>>)
         \o ColumnOf(content, i + 1, col)

\* The target the claim describes, for a header with one "ID" token, at index k.
ClaimedTarget(content) ==
    LET k == CHOOSE i \in IdTokens(content) : TRUE
    IN  Join(ColumnOf(content, 2, k - 1))

\* C11 (as claimed): for a header whose "ID" token is at index k, k = 0 included,
\* the extraction returns the tokens at index k-1 of the toggled non-header rows,
\* in row order, joined by single spaces; "abc123" in the example of the claim.
C11_ExtractionReturnsIdColumn ==
    [][/\ extract_target_string(
            << [text |-> ImageTable[1], selected |-> FALSE],
               [text |-> ImageTable[2], selected |-> TRUE] >>) = <<"abc123">>
       /\ (Extracted /\ Cardinality(IdTokens(state.content)) = 1)
          => /\ prompt' # NoPrompt
             /\ prompt'.target = ClaimedTarget(state.content)]_vars

KindOf(key) == kind_keybindings[key]

CommandOf(key) == command_keybindings[key]

\* The kind is resolved and (first, key) is an allowed pair of this target type.
AllowedPair(key, target_type) ==
    /\ pc = "second"
    /\ first \in KindKeys
    /\ CommandOf(key) \in mapping[KindOf(first)]
    /\ target_mapping[CommandOf(key)] = target_type

\* C12 (as claimed): the command key of an allowed pair whose target type is
\* EMPTY executes the command in the same step: the selection loop is not
\* entered and no other event is read before the execution.
C12_EmptyTargetExecutesAtOnce ==
    [][\A c \in CommandKeys :
          (AllowedPair(c, "EMPTY") /\ GetSecondOn(c))
          => /\ pc' # "select"
             /\ prompt' # NoPrompt
             /\ prompt'.kind = KindOf(first)
             /\ prompt'.command = CommandOf(c)]_vars

\* C13 (as claimed): the command key of an allowed pair whose target type is
\* SELECT enters the selection loop, and CONFIRM with no row toggled executes the
\* command with an empty target, whatever the rows are.
C13_ConfirmWithoutSelection ==
    [][/\ \A c \in CommandKeys :
             (AllowedPair(c, "SELECT") /\ GetSecondOn(c))
             => /\ pc' = "select"
                /\ prompt' = NoPrompt
       /\ (/\ SelectLoopOn("Enter")
           /\ \A i \in 1..N : ~state.content[i].selected)
          => /\ prompt' # NoPrompt
             /\ prompt'.kind = KindOf(first)
             /\ prompt'.command = CommandOf(second)
             /\ prompt'.target = <<>>]_vars

(***************************************************************************)
(* Properties of the global keys, of the terminal and of the subprocess.   *)
(***************************************************************************)
\* C14 (as claimed): at every read, the selection loop included, a key of
\* general_keybindings resolves to its global action, and QUIT ends the process.
C14_GlobalKeysFirstEverywhere ==
    [][\A g \in GeneralKeys :
          (GetFirstOn(g) \/ GetSecondOn(g) \/ SelectLoopOn(g))
          => /\ last'.act = general_keybindings[g]
             /\ general_keybindings[g] = "QUIT" => pc' = "done" /\ exit_code' = "0"]_vars

\* C15 (as claimed): whenever the process has ended, raw mode is disabled and the
\* alternate screen has been left.
C15_TerminalRestoredAtExit ==
    pc = "done" => ~raw_mode /\ ~alternate_screen

\* C16 (as claimed): when the daemon probe returns a non-zero status the process
\* exits with a non-zero code and neither raw mode nor the alternate screen has
\* been entered.
C16_ProbeBeforeTerminalChange ==
    (last.at = "new" /\ last.act = "failure")
    => /\ pc = "done"
       /\ exit_code = "1"
       /\ ~raw_mode
       /\ ~alternate_screen

\* C17 (as claimed): when the docker command cannot be run, prints invalid UTF-8
\* or exits with a non-zero status, the session goes on at KIND and the RowList
\* holds a status row reporting the failure.
C17_SubprocessFailureRecoverable ==
    last.docker \in {"spawn_error", "invalid_utf8", "nonzero_exit"}
    => /\ pc = "first"
       /\ exit_code = "none"
       /\ state.moment = "KIND"
       /\ ErrRows(state.content) >= 1

\* C18 (as claimed): HELP read while Moment # KIND changes neither the state nor
\* the resolved kind nor the step; read at KIND it only replaces the hint by
\* help_string.
C18_HelpFrame ==
    [][/\ (state.moment # "KIND" /\ (GetFirstOn("Ctrl+h") \/ GetSecondOn("Ctrl+h")))
          => UNCHANGED <<state, first, pc>>
       /\ (state.moment = "KIND" /\ GetFirstOn("Ctrl+h"))
          => /\ state' = [state EXCEPT !.commands = help_string]
             /\ pc' = pc]_vars

\* C19 (as claimed): after CLEAN, read by get_first or get_second, the RowList is
\* empty when the next event is awaited and Moment is what it was.
C19_CleanFrame ==
    [][(GetFirstOn("Ctrl+l") \/ GetSecondOn("Ctrl+l"))
       => /\ state'.content = <<>>
          /\ state'.moment = state.moment]_vars

\* C20: TOGGLE with the cursor on a selectable row flips the flag of that row and
\* changes nothing else, and a second TOGGLE gives back the rows, the cursor and
\* Moment of before the first.
C20_ToggleTwice ==
    [][(SelectLoopOn("Space") /\ state.cursor \in 1..(N - 1))
       => /\ pc' = "select"
          /\ state'.cursor = state.cursor
          /\ state'.moment = state.moment
          /\ Len(state'.content) = N
          /\ \A i \in 1..N :
                /\ state'.content[i].text = state.content[i].text
                /\ state'.content[i].selected =
                      (IF i = state.cursor + 1 THEN ~state.content[i].selected
                                               ELSE state.content[i].selected)
          /\ toggle(state').content = state.content
          /\ toggle(state').cursor = state.cursor
          /\ toggle(state').moment = state.moment]_vars

\* C20 witness: the last step was a TOGGLE that cleared the flag of the row at the
\* cursor, which an earlier TOGGLE had set.
C20_Witness ==
    /\ pc = "select"
    /\ last.act = "SELECT"
    /\ state.cursor \in 1..(N - 1)
    /\ ~state.content[state.cursor + 1].selected

(***************************************************************************)
(* Properties of the retry, of the free-text target and of the flags.      *)
(***************************************************************************)
\* C21 (as claimed): a key answered WRONG is dropped and the same step reads the
\* next event: the step, Moment and a kind resolved in this cycle are kept.
C21_WrongKeyRetriesStep ==
    [][(pc \in {"first", "second"} /\ last'.at = pc /\ last'.act = "WRONG")
       => /\ pc' = pc
          /\ first' = first
          /\ state'.moment = state.moment]_vars

\* C22 (as claimed): the command key of an allowed pair whose target type is
\* INPUT (Tag on Image) does not execute the command in the same step: the text
\* of the target is read first.
C22_InputTargetReadsText ==
    [][\A c \in CommandKeys :
          (AllowedPair(c, "INPUT") /\ GetSecondOn(c))
          => /\ prompt' = NoPrompt
             /\ last'.res = "next"
             /\ pc' \notin {"first", "done"}]_vars

\* C23 (as claimed): toggled flags never leak into a later cycle: every executed
\* command whose target type is EMPTY (LS) is given the empty target, also after a
\* list selection that an error ended with rows toggled.
C23_NoLeakIntoListCommand ==
    (prompt # NoPrompt /\ target_mapping[prompt.command] = "EMPTY")
    => prompt.target = <<>>

====
